---- MODULE Spec2Model ----
(***************************************************************************)
(* Model of onaudience_api/api_dmp.py: DatapointAssignmentController.      *)
(*                                                                         *)
(* Python values are tagged records.  A Python int is unbounded, so it is  *)
(* kept as a sign and a little-endian sequence of bits without leading     *)
(* zeros; tohex is computed on that representation exactly as the code     *)
(* computes it, with the code's own 63 bits and 16 characters.             *)
(***************************************************************************)
EXTENDS Integers, Sequences, FiniteSets, TLC

VARIABLES
    self,        \* the controller's attributes, or NoClient before __init__
    ctor,        \* outcome of the last __init__: "none", "ok", "AssertionError"
    pc,          \* position of the running assignment method
    op,          \* which of the six assignment methods is running / ran last
    args,        \* its arguments: userId, datapoint, value
    h_userId,    \* local h_userId: the encoded user ids
    payload,     \* local payload
    headers,     \* local headers
    idx,         \* position of the for loop in h_userId (1-based)
    r,           \* local r: the last response of requests.post in the loop
    error,       \* the exception that left the method, if any
    net,         \* requests and sleeps of the current invocation, in order
    nCalls,      \* assignment invocations started
    nCompleted,  \* assignment invocations that returned normally
    totalLogins, \* login requests issued since construction
    hexIn,       \* pair of integers handed to tohex (encoding specification)
    hexOut       \* their encodings

vars == <<self, ctor, pc, op, args, h_userId, payload, headers, idx, r, error,
          net, nCalls, nCompleted, totalLogins, hexIn, hexOut>>

callVars == <<pc, op, args, h_userId, payload, headers, idx, r, error, net,
              nCalls, nCompleted, totalLogins>>

-----------------------------------------------------------------------------
(* Bounds of the model *)

MaxUsers == 2
MaxDatapoints == 2
MaxValues == 2
MaxCalls == 2
MaxOffset == 2

-----------------------------------------------------------------------------
(* Python integers *)

RECURSIVE NatToBits(_)
NatToBits(n) == IF n = 0 THEN <<>> ELSE <<n % 2>> \o NatToBits(n \div 2)

RECURSIVE BitsToNat(_)
BitsToNat(b) == IF b = <<>> THEN 0 ELSE Head(b) + 2 * BitsToNat(Tail(b))

\* b without its leading (most significant) zeros
Trim(b) ==
    LET ones == {i \in 1..Len(b) : b[i] = 1}
    IN  IF ones = {}
        THEN <<>>
        ELSE SubSeq(b, 1, CHOOSE k \in ones : \A i \in ones : i <= k)

BitAt(b, i) == IF i <= Len(b) THEN b[i] ELSE 0

Rest(b) == IF b = <<>> THEN <<>> ELSE Tail(b)

RECURSIVE AddBits(_, _, _)
AddBits(a, b, c) ==
    IF a = <<>> /\ b = <<>>
    THEN IF c = 1 THEN <<1>> ELSE <<>>
    ELSE LET s == BitAt(a, 1) + BitAt(b, 1) + c
         IN  <<s % 2>> \o AddBits(Rest(a), Rest(b), s \div 2)

\* a - b - c on magnitudes, for a >= b + c
RECURSIVE SubBits(_, _, _)
SubBits(a, b, c) ==
    IF a = <<>>
    THEN <<>>
    ELSE LET d == BitAt(a, 1) - BitAt(b, 1) - c
         IN  <<d % 2>> \o SubBits(Rest(a), Rest(b), IF d < 0 THEN 1 ELSE 0)

\* a < b on magnitudes without leading zeros
LessBits(a, b) ==
    IF Len(a) # Len(b)
    THEN Len(a) < Len(b)
    ELSE LET diff == {i \in 1..Len(a) : a[i] # b[i]}
         IN  /\ diff # {}
             /\ LET k == CHOOSE k \in diff : \A i \in diff : i <= k
                IN  a[k] < b[k]

PyInt(n) ==
    [t |-> "int", neg |-> n < 0, mag |-> NatToBits(IF n < 0 THEN -n ELSE n)]

MkInt(neg, mag) ==
    LET m == Trim(mag) IN [t |-> "int", neg |-> neg /\ m # <<>>, mag |-> m]

\* x + y
IntAdd(x, y) ==
    IF x.neg = y.neg
    THEN MkInt(x.neg, AddBits(x.mag, y.mag, 0))
    ELSE IF LessBits(x.mag, y.mag)
         THEN MkInt(y.neg, SubBits(y.mag, x.mag, 0))
         ELSE MkInt(x.neg, SubBits(x.mag, y.mag, 0))

IntNeg(x) == MkInt(~x.neg, x.mag)

\* 1 << n
IntShl1(n) == [t |-> "int", neg |-> FALSE,
               mag |-> [i \in 1..(n + 1) |-> IF i = n + 1 THEN 1 ELSE 0]]

\* mutation: one bit too many is kept (the remainder by 1 << (n + 1))
IntModShl1_wide(x, n) ==
    LET low == Trim(SubSeq(x.mag, 1, IF Len(x.mag) < n + 1 THEN Len(x.mag) ELSE n + 1))
    IN  IF ~x.neg \/ low = <<>>
        THEN MkInt(FALSE, low)
        ELSE MkInt(FALSE, SubBits(IntShl1(n + 1).mag, low, 0))

\* x % (1 << n): the remainder by a power of two keeps the n low bits of the
\* magnitude; Python's remainder has the sign of the divisor, so a negative x
\* with low bits l # 0 gives 2^n - l
IntModShl1(x, n) ==
    LET low == Trim(SubSeq(x.mag, 1, IF Len(x.mag) < n THEN Len(x.mag) ELSE n))
    IN  IF ~x.neg \/ low = <<>>
        THEN MkInt(FALSE, low)
        ELSE MkInt(FALSE, SubBits(IntShl1(n).mag, low, 0))

-----------------------------------------------------------------------------
(* Python strings of the encoding are sequences of one-character strings *)

HexChar == <<"0", "1", "2", "3", "4", "5", "6", "7",
             "8", "9", "a", "b", "c", "d", "e", "f">>

RECURSIVE HexDigits(_)
HexDigits(b) ==
    IF b = <<>>
    THEN <<>>
    ELSE LET d == BitAt(b, 1) + 2 * BitAt(b, 2) + 4 * BitAt(b, 3) + 8 * BitAt(b, 4)
         IN  HexDigits(SubSeq(b, 5, Len(b))) \o <<HexChar[d + 1]>>

\* hex(x)
Hex(x) ==
    (IF x.neg THEN <<"-">> ELSE <<>>) \o <<"0", "x">>
        \o (IF x.mag = <<>> THEN <<"0">> ELSE HexDigits(x.mag))

\* s[2:]
From2(s) == SubSeq(s, 3, Len(s))

\* mutation: pads on the right (ljust) instead of the left
Zfill_ljust(s, width) ==
    IF Len(s) >= width THEN s ELSE s \o [i \in 1..(width - Len(s)) |-> "0"]

\* s.zfill(width)
Zfill(s, width) ==
    IF Len(s) >= width
    THEN s
    ELSE LET zeros == [i \in 1..(width - Len(s)) |-> "0"]
         IN  IF s # <<>> /\ s[1] \in {"+", "-"}
             THEN <<s[1]>> \o zeros \o Tail(s)
             ELSE zeros \o s

HexWidth == 16
UserIdBits == 63

tohex(val, nbits) ==
    LET h == From2(Hex(IntModShl1(IntAdd(val, IntShl1(nbits)), nbits)))
    IN  Zfill(h, HexWidth)

-----------------------------------------------------------------------------
(* Integers around the edges of [0, 2^63) *)

TwoTo63 == IntShl1(UserIdBits)

HexInputs ==
    UNION { { PyInt(j), PyInt(-j),
              IntAdd(TwoTo63, PyInt(j)), IntAdd(TwoTo63, PyInt(-j)),
              IntAdd(IntNeg(TwoTo63), PyInt(j)), IntAdd(IntNeg(TwoTo63), PyInt(-j)),
              IntAdd(IntShl1(UserIdBits + 1), PyInt(j)) } : j \in 0..MaxOffset }
    \cup { PyInt(255), PyInt(256), PyInt(48879), IntAdd(IntShl1(60), PyInt(-1)) }

-----------------------------------------------------------------------------
(* Other Python values *)

None == [t |-> "none"]
PyStr(s) == [t |-> "str", s |-> s]
PyList(e) == [t |-> "list", e |-> e]
PyDict(k, v) == [t |-> "dict", k |-> k, v |-> v]
\* a value json cannot serialise (bytes)
PyBytes == [t |-> "bytes"]

\* isinstance(v, int), isinstance(v, str), isinstance(v, list)
IsInt(v) == v.t = "int"
IsStr(v) == v.t = "str"
IsList(v) == v.t = "list"

DecChar == <<"0", "1", "2", "3", "4", "5", "6", "7", "8", "9">>

RECURSIVE NatToStr(_)
NatToStr(n) ==
    IF n < 10 THEN DecChar[n + 1] ELSE NatToStr(n \div 10) \o DecChar[(n % 10) + 1]

\* str(x) of an int
IntToStr(x) == (IF x.neg THEN "-" ELSE "") \o NatToStr(BitsToNat(x.mag))

\* ''.join(chars)
RECURSIVE JoinChars(_)
JoinChars(s) == IF s = <<>> THEN "" ELSE Head(s) \o JoinChars(Tail(s))

\* what '{}'.format(v) inserts
Str(v) ==
    IF v.t = "int" THEN IntToStr(v)
    ELSE IF v.t = "str" THEN v.s
    ELSE IF v.t = "hex" THEN JoinChars(v.c)
    ELSE "None"

\* whether json.dumps accepts v
RECURSIVE Serializable(_)
Serializable(v) ==
    IF v.t \in {"int", "str", "none"} THEN TRUE
    ELSE IF v.t = "list" THEN \A i \in 1..Len(v.e) : Serializable(v.e[i])
    ELSE IF v.t = "dict" THEN \A i \in 1..Len(v.v) : Serializable(v.v[i])
    ELSE FALSE

RECURSIVE JoinWith(_, _)
JoinWith(parts, sep) ==
    IF parts = <<>> THEN ""
    ELSE IF Len(parts) = 1 THEN parts[1]
    ELSE parts[1] \o sep \o JoinWith(Tail(parts), sep)

\* json.dumps(v) with the default separators ', ' and ': '
RECURSIVE JsonDumps(_)
JsonDumps(v) ==
    IF v.t = "int" THEN IntToStr(v)
    ELSE IF v.t = "str" THEN "\"" \o v.s \o "\""
    ELSE IF v.t = "none" THEN "null"
    ELSE IF v.t = "list"
    THEN "[" \o JoinWith([i \in 1..Len(v.e) |-> JsonDumps(v.e[i])], ", ") \o "]"
    ELSE "{" \o JoinWith([i \in 1..Len(v.k) |->
                            "\"" \o v.k[i] \o "\": " \o JsonDumps(v.v[i])], ", ") \o "}"

-----------------------------------------------------------------------------
(* The controller *)

Host == "https://dmp-api.cloudtechnologies.dev/"

Ops == {"assign_event_to_user", "assign_events_to_user",
        "assign_number_attribute", "assign_number_attributes",
        "assign_string_attribute", "assign_string_attributes"}

PluralOps == {"assign_events_to_user", "assign_number_attributes",
              "assign_string_attributes"}

PluralAttributeOps == {"assign_number_attributes", "assign_string_attributes"}

EventOps == {"assign_event_to_user", "assign_events_to_user"}

\* the endpoint each method posts to
Endpoint(o) ==
    CASE o = "assign_event_to_user" -> "event"
      [] o = "assign_events_to_user" -> "events"
      [] o = "assign_number_attribute" -> "number-attribute"
      [] o = "assign_number_attributes" -> "number-attributes"
      [] o = "assign_string_attribute" -> "string-attribute"
      [] o = "assign_string_attributes" -> "string-attributes"

\* mutation: the two format arguments change places
AssignUrl_swapped(o, partner, hexId) ==
    Host \o Endpoint(o) \o "?cmPartnerId=" \o Str(hexId) \o "&userId=" \o Str(partner)

\* url.format(self.cmPartnerId, i)
AssignUrl(o, partner, hexId) ==
    Host \o Endpoint(o) \o "?cmPartnerId=" \o Str(partner) \o "&userId=" \o Str(hexId)

\* url.format(self.username, self.password)
LoginUrl(username, password) ==
    Host \o "login?email=" \o Str(username) \o "&password=" \o Str(password)

\* the asserts at the head of each method
ArgsValid(o, u, d, v) ==
    /\ IsList(u)
    /\ IF o \in PluralOps THEN IsList(d) ELSE IsInt(d)
    /\ CASE o = "assign_number_attribute" -> IsInt(v)
         [] o = "assign_string_attribute" -> IsStr(v)
         [] o \in PluralAttributeOps -> IsList(v)
         [] OTHER -> TRUE

\* [self.tohex(val, 63) for val in userId]: val + (1 << nbits) raises TypeError
\* unless val is an int
CanEncode(u) == \A i \in 1..Len(u.e) : IsInt(u.e[i])

\* mutation: repeated user ids are encoded once
EncodeAll_dedup(u) ==
    LET all  == [i \in 1..Len(u.e) |-> [t |-> "hex", c |-> tohex(u.e[i], UserIdBits)]]
        keep == {i \in 1..Len(all) : \A j \in 1..(i - 1) : all[j] # all[i]}
        at(k) == CHOOSE i \in keep : Cardinality({j \in keep : j <= i}) = k
    IN  [k \in 1..Cardinality(keep) |-> all[at(k)]]

EncodeAll(u) ==
    [i \in 1..Len(u.e) |-> [t |-> "hex", c |-> tohex(u.e[i], UserIdBits)]]

\* for i in datapointsList: key_datapoints.append({"id": i})
KeyDatapoints(d) ==
    PyList([i \in 1..Len(d.e) |-> PyDict(<<"id">>, <<d.e[i]>>)])

\* mutation: lists of different lengths are rejected, whichever is longer
CanPair_strict(d, v) == Len(d.e) = Len(v.e)

\* for i in range(len(datapointsList)): attribute_values[i] raises IndexError
\* when the value list is the shorter one
CanPair(d, v) == Len(d.e) <= Len(v.e)

\* mutation: every datapoint is paired with the first value
KeyDatapointsValues_first(d, v) ==
    PyList([i \in 1..Len(d.e) |-> PyDict(<<"id", "value">>, <<d.e[i], v.e[1]>>)])

\* key_datapoints_values.append({'id': datapointsList[i], 'value': attribute_values[i]})
KeyDatapointsValues(d, v) ==
    PyList([i \in 1..Len(d.e) |-> PyDict(<<"id", "value">>, <<d.e[i], v.e[i]>>)])

\* building the descriptor list raises IndexError
PayloadFails(o, d, v) == o \in PluralAttributeOps /\ ~CanPair(d, v)

\* mutation: every method builds its payload after get_headers_with_token
BuiltBeforeLogin_never(o) == FALSE

\* the plural methods build their descriptor lists before they call
\* get_headers_with_token; the others write the payload literal after it
BuiltBeforeLogin(o) == o \in PluralOps

\* payload = {'body': ...}
Payload(o, d, v) ==
    CASE o = "assign_event_to_user" -> PyDict(<<"body">>, <<PyDict(<<"id">>, <<d>>)>>)
      [] o = "assign_events_to_user" -> PyDict(<<"body">>, <<KeyDatapoints(d)>>)
      [] o \in {"assign_number_attribute", "assign_string_attribute"} ->
            PyDict(<<"body">>, <<PyDict(<<"id", "value">>, <<d, v>>)>>)
      [] o \in PluralAttributeOps -> PyDict(<<"body">>, <<KeyDatapointsValues(d, v)>>)

\* the X-Auth-Token header of the n-th login response
Token(n) == [t |-> "str", s |-> "token", issued |-> n]

\* mutation: the token of the first login is kept and reused
HeadersWithToken_stale(token) ==
    ("accpet" :> self.response_content_type)
        @@ ("X-Auth-Token" :> IF totalLogins > 0 THEN Token(1) ELSE token)
        @@ ("Content-Type" :> self.content_type)

\* headers = {'accpet': ..., 'X-Auth-Token': token, 'Content-Type': ...}
HeadersWithToken(token) ==
    ("accpet" :> self.response_content_type)
        @@ ("X-Auth-Token" :> token) @@ ("Content-Type" :> self.content_type)

\* mutation: a transport failure is swallowed
Raises_never(resp) == FALSE

\* requests.post raises (requests.exceptions.ConnectionError and the like) when
\* the transport fails; any HTTP response, whatever its status, is returned
Raises(resp) == resp = "ConnectionError"

Exception(type, stage) == [t |-> "exception", type |-> type, stage |-> stage]

SleepTenths == 8

-----------------------------------------------------------------------------
(* Arguments the callers pass *)

\* ramps: <<>>, <<a>>, <<a, a+1>>, ...
Ramps(a, n) == {[i \in 1..k |-> PyInt(a + i - 1)] : k \in 0..n}

UsernameArgs == {PyStr("user@example.com"), PyInt(0)}
PasswordArgs == {PyStr("secret"), None}
PartnerArgs == {PyInt(1), PyInt(7), PyStr("1")}
ContentTypeArgs == {PyStr("application/json"), None}
AcceptArgs == {PyStr("*/*"), PyInt(0)}

UserIdArgs ==
    {PyList(s) : s \in Ramps(1, MaxUsers)}
        \cup {PyList(<<PyInt(2), PyInt(1)>>), PyList(<<PyInt(1), PyInt(1)>>),
              PyList(<<PyStr("x")>>), PyInt(1)}

DatapointArgs ==
    {PyInt(42)} \cup {PyList(s) : s \in Ramps(42, MaxDatapoints)}

ValueArgs ==
    {PyInt(5), PyStr("v"), PyList(<<PyBytes>>)}
        \cup {PyList(s) : s \in Ramps(5, MaxValues)}

LoginResponses == {"token", "no-token", "ConnectionError"}
PostResponses == {"200", "500", "ConnectionError"}

-----------------------------------------------------------------------------
(* State machine *)

Init ==
    /\ self = None
    /\ ctor = "none"
    /\ pc = "idle"
    /\ op = "none"
    /\ args = <<>>
    /\ h_userId = <<>>
    /\ payload = None
    /\ headers = None
    /\ idx = 0
    /\ r = None
    /\ error = None
    /\ net = <<>>
    /\ nCalls = 0
    /\ nCompleted = 0
    /\ totalLogins = 0
    /\ hexIn = <<>>
    /\ hexOut = <<>>

\* __init__
Construct(username, password, cmPartnerId, content_type, response_content_type) ==
    /\ self = None
    /\ IF /\ IsStr(username) /\ IsStr(password) /\ IsInt(cmPartnerId)
          /\ IsStr(content_type) /\ IsStr(response_content_type)
       THEN /\ self' = [t |-> "controller",
                        username |-> username, password |-> password,
                        cmPartnerId |-> cmPartnerId, content_type |-> content_type,
                        response_content_type |-> response_content_type]
            /\ ctor' = "ok"
       ELSE /\ self' = None
            /\ ctor' = "AssertionError"
    /\ UNCHANGED <<callVars, hexIn, hexOut>>

Raise(type, stage) ==
    /\ pc' = "raised"
    /\ error' = Exception(type, stage)

\* the part of an assignment method that precedes get_headers_with_token
Invoke(o, u, d, v) ==
    /\ self # None
    /\ pc = "idle"
    /\ nCalls < MaxCalls
    /\ nCalls' = nCalls + 1
    /\ op' = o
    /\ args' = [userId |-> u, datapoint |-> d, value |-> v]
    /\ net' = <<>>
    /\ headers' = None
    /\ r' = None
    /\ idx' = 0
    /\ IF ~ArgsValid(o, u, d, v)
       THEN /\ Raise("AssertionError", "validate")
            /\ h_userId' = <<>>
            /\ payload' = None
       ELSE IF ~CanEncode(u)
       THEN /\ Raise("TypeError", "encode")
            /\ h_userId' = <<>>
            /\ payload' = None
       ELSE IF BuiltBeforeLogin(o) /\ PayloadFails(o, d, v)
       THEN /\ Raise("IndexError", "payload")
            /\ h_userId' = EncodeAll(u)
            /\ payload' = None
       ELSE /\ pc' = "login"
            /\ error' = None
            /\ h_userId' = EncodeAll(u)
            /\ payload' = IF BuiltBeforeLogin(o) THEN Payload(o, d, v) ELSE None
    /\ UNCHANGED <<self, ctor, nCompleted, totalLogins, hexIn, hexOut>>

\* get_headers_with_token, and the payload literal that follows it
Login(resp) ==
    /\ pc = "login"
    /\ totalLogins' = totalLogins + 1
    /\ net' = Append(net, [kind |-> "login",
                           url |-> LoginUrl(self.username, self.password),
                           answered |-> resp # "ConnectionError",
                           token |-> IF resp = "token" THEN Token(totalLogins + 1)
                                                       ELSE None])
    /\ IF Raises(resp)
       THEN /\ Raise("ConnectionError", "login")
            /\ UNCHANGED <<headers, payload, idx>>
       ELSE IF payload = None /\ PayloadFails(op, args.datapoint, args.value)
       THEN /\ Raise("IndexError", "payload")
            /\ headers' = HeadersWithToken(IF resp = "token"
                                           THEN Token(totalLogins + 1) ELSE None)
            /\ UNCHANGED <<payload, idx>>
       ELSE /\ headers' = HeadersWithToken(IF resp = "token"
                                           THEN Token(totalLogins + 1) ELSE None)
            /\ payload' = IF payload = None
                          THEN Payload(op, args.datapoint, args.value)
                          ELSE payload
            /\ idx' = 1
            /\ pc' = "loop"
            /\ UNCHANGED error
    /\ UNCHANGED <<self, ctor, op, args, h_userId, r, nCalls, nCompleted, hexIn, hexOut>>

\* one requests.post of the for loop, and the print of its response
Post(resp) ==
    /\ pc = "loop"
    /\ idx <= Len(h_userId)
    /\ IF ~Serializable(payload)
       THEN /\ Raise("TypeError", "serialize")
            /\ UNCHANGED <<net, r>>
       ELSE /\ net' = Append(net, [kind |-> "post",
                                   url |-> AssignUrl(op, self.cmPartnerId, h_userId[idx]),
                                   headers |-> headers,
                                   data |-> JsonDumps(payload),
                                   answered |-> resp # "ConnectionError"])
            /\ IF Raises(resp)
               THEN /\ Raise("ConnectionError", "post")
                    /\ UNCHANGED r
               ELSE /\ r' = [t |-> "response", status |-> resp]
                    /\ pc' = "sleep"
                    /\ UNCHANGED error
    /\ UNCHANGED <<self, ctor, op, args, h_userId, payload, headers, idx,
                   nCalls, nCompleted, totalLogins, hexIn, hexOut>>

\* mutation: no sleep after the last request
Sleep_notlast ==
    /\ pc = "sleep"
    /\ net' = IF idx = Len(h_userId)
              THEN net
              ELSE Append(net, [kind |-> "sleep", tenths |-> SleepTenths])
    /\ idx' = idx + 1
    /\ pc' = "loop"
    /\ UNCHANGED <<self, ctor, op, args, h_userId, payload, headers, r, error,
                   nCalls, nCompleted, totalLogins, hexIn, hexOut>>

\* time.sleep(0.8), and the loop's step to the next user id
Sleep ==
    /\ pc = "sleep"
    /\ net' = Append(net, [kind |-> "sleep", tenths |-> SleepTenths])
    /\ idx' = idx + 1
    /\ pc' = "loop"
    /\ UNCHANGED <<self, ctor, op, args, h_userId, payload, headers, r, error,
                   nCalls, nCompleted, totalLogins, hexIn, hexOut>>

\* the for loop is exhausted: the method returns None
Return ==
    /\ pc = "loop"
    /\ idx > Len(h_userId)
    /\ pc' = "done"
    /\ nCompleted' = nCompleted + 1
    /\ UNCHANGED <<self, ctor, op, args, h_userId, payload, headers, idx, r, error,
                   net, nCalls, totalLogins, hexIn, hexOut>>

\* the method has returned or raised: its frame, with its locals, is gone and
\* the controller is ready for the next call
Discard ==
    /\ pc \in {"done", "raised"}
    /\ pc' = "idle"
    /\ op' = "none"
    /\ args' = <<>>
    /\ h_userId' = <<>>
    /\ payload' = None
    /\ headers' = None
    /\ idx' = 0
    /\ r' = None
    /\ error' = None
    /\ net' = <<>>
    /\ UNCHANGED <<self, ctor, nCalls, nCompleted, totalLogins, hexIn, hexOut>>

Next ==
    \/ \E un \in UsernameArgs, pw \in PasswordArgs, pid \in PartnerArgs,
          ct \in ContentTypeArgs, rct \in AcceptArgs : Construct(un, pw, pid, ct, rct)
    \/ \E o \in Ops, u \in UserIdArgs, d \in DatapointArgs :
          \E v \in (IF o \in EventOps THEN {None} ELSE ValueArgs) : Invoke(o, u, d, v)
    \/ \E resp \in LoginResponses : Login(resp)
    \/ \E resp \in PostResponses : Post(resp)
    \/ Sleep
    \/ Return
    \/ Discard

Spec == Init /\ [][Next]_vars

-----------------------------------------------------------------------------
(* Properties *)

NumOf(kind) == Cardinality({i \in 1..Len(net) : net[i].kind = kind})

Posts == SelectSeq(net, LAMBDA e : e.kind = "post")

\* C1: an assignment invocation that returns has issued exactly one login
\* request and exactly one assignment POST per element of its user id list
\* (none for the empty list), and as long as every invocation so far has
\* returned, the logins issued since construction number the invocations.
C1_OneLoginKPosts ==
    /\ pc = "done" =>
          /\ NumOf("login") = 1
          /\ NumOf("post") = Len(args.userId.e)
    /\ (pc \in {"idle", "done"} /\ nCompleted = nCalls) => totalLogins = nCalls

C1_Witness ==
    /\ pc = "done"
    /\ nCalls = 2
    /\ nCompleted = 2
    /\ totalLogins = 2
    /\ args.userId = PyList(<<PyInt(1), PyInt(1)>>)
    /\ NumOf("post") = 2

\* C2: the login request is the first event of an invocation and the only
\* login of it; every assignment POST of the invocation carries one and the
\* same header map, whose X-Auth-Token is what this invocation's login
\* returned, which is the token of the latest login and of no earlier one.
C2_LoginFirstOwnToken ==
    /\ net # <<>> =>
          /\ net[1].kind = "login"
          /\ \A i \in 2..Len(net) : net[i].kind # "login"
          /\ net[1].token # None => net[1].token.issued = totalLogins
    /\ \A i \in 1..Len(net) : net[i].kind = "post" =>
          /\ net[i].headers["X-Auth-Token"] = net[1].token
          /\ \A j \in 1..Len(net) : net[j].kind = "post" =>
                net[j].headers = net[i].headers

C2_Witness ==
    /\ pc = "done"
    /\ nCalls = 2
    /\ totalLogins = 2
    /\ Len(Posts) = 2
    /\ net[1].token = Token(2)
    /\ Posts[2].headers["X-Auth-Token"] = Token(2)

ExpectedUrlHead(o) ==
    CASE o = "assign_event_to_user" ->
            "https://dmp-api.cloudtechnologies.dev/event?cmPartnerId="
      [] o = "assign_events_to_user" ->
            "https://dmp-api.cloudtechnologies.dev/events?cmPartnerId="
      [] o = "assign_number_attribute" ->
            "https://dmp-api.cloudtechnologies.dev/number-attribute?cmPartnerId="
      [] o = "assign_number_attributes" ->
            "https://dmp-api.cloudtechnologies.dev/number-attributes?cmPartnerId="
      [] o = "assign_string_attribute" ->
            "https://dmp-api.cloudtechnologies.dev/string-attribute?cmPartnerId="
      [] o = "assign_string_attributes" ->
            "https://dmp-api.cloudtechnologies.dev/string-attributes?cmPartnerId="

ExpectedSingleBody(o, d, v) ==
    CASE o = "assign_event_to_user" ->
            "{\"body\": {\"id\": " \o IntToStr(d) \o "}}"
      [] o = "assign_number_attribute" ->
            "{\"body\": {\"id\": " \o IntToStr(d) \o ", \"value\": " \o IntToStr(v) \o "}}"
      [] o = "assign_string_attribute" ->
            "{\"body\": {\"id\": " \o IntToStr(d) \o ", \"value\": \"" \o v.s \o "\"}}"

\* C3: the i-th assignment POST of an invocation goes to the method's endpoint
\* with cmPartnerId the controller's partner id and userId the encoding of the
\* i-th element of the user id list (input order, duplicates included); a
\* returned invocation has sent one per element; the body of every request of
\* a single-datapoint method is {"body": {"id": dp}} or
\* {"body": {"id": dp, "value": v}}.  For userId [1, 2] and datapoint 42 the
\* single-event method of partner 1 sends the two requests of the scenario.
C3_RequestsFollowInput ==
    /\ \A i \in 1..Len(Posts) :
          /\ i <= Len(args.userId.e)
          /\ Posts[i].url = ExpectedUrlHead(op) \o IntToStr(self.cmPartnerId)
                               \o "&userId="
                               \o JoinChars(tohex(args.userId.e[i], UserIdBits))
          /\ op \notin PluralOps =>
                Posts[i].data = ExpectedSingleBody(op, args.datapoint, args.value)
    /\ pc = "done" => Len(Posts) = Len(args.userId.e)
    /\ ( /\ pc = "done"
         /\ op = "assign_event_to_user"
         /\ self.cmPartnerId = PyInt(1)
         /\ args.userId = PyList(<<PyInt(1), PyInt(2)>>)
         /\ args.datapoint = PyInt(42) ) =>
          /\ Len(Posts) = 2
          /\ Posts[1].url =
                "https://dmp-api.cloudtechnologies.dev/event?cmPartnerId=1&userId=0000000000000001"
          /\ Posts[2].url =
                "https://dmp-api.cloudtechnologies.dev/event?cmPartnerId=1&userId=0000000000000002"
          /\ Posts[1].data = "{\"body\": {\"id\": 42}}"
          /\ Posts[2].data = "{\"body\": {\"id\": 42}}"

C3_Witness ==
    /\ pc = "done"
    /\ op = "assign_number_attribute"
    /\ self.cmPartnerId = PyInt(7)
    /\ args.userId = PyList(<<PyInt(2), PyInt(1)>>)
    /\ Len(Posts) = 2
    /\ Posts[1].url =
          "https://dmp-api.cloudtechnologies.dev/number-attribute?cmPartnerId=7&userId=0000000000000002"
    /\ Posts[2].data = "{\"body\": {\"id\": 42, \"value\": 5}}"

\* C6: the payload of a plural method is {"body": list} where the list has one
\* descriptor per datapoint, in input order, the i-th being {id: datapoint i}
\* for events and {id: datapoint i, value: value i} for attributes (value list
\* of the same length); every request of the invocation carries that payload.
C6_PluralPairing ==
    ( /\ op \in PluralOps
      /\ payload # None
      /\ op \in PluralAttributeOps => Len(args.value.e) = Len(args.datapoint.e) ) =>
       /\ payload.k = <<"body">>
       /\ payload.v[1].t = "list"
       /\ Len(payload.v[1].e) = Len(args.datapoint.e)
       /\ \A i \in 1..Len(args.datapoint.e) :
             IF op = "assign_events_to_user"
             THEN payload.v[1].e[i] =
                     [t |-> "dict", k |-> <<"id">>, v |-> <<args.datapoint.e[i]>>]
             ELSE payload.v[1].e[i] =
                     [t |-> "dict", k |-> <<"id", "value">>,
                      v |-> <<args.datapoint.e[i], args.value.e[i]>>]
       /\ \A i, j \in 1..Len(Posts) : Posts[i].data = Posts[j].data
       /\ \A i \in 1..Len(Posts) :
             /\ ( /\ op = "assign_events_to_user"
                  /\ args.datapoint = PyList(<<PyInt(42), PyInt(43)>>) ) =>
                   Posts[i].data = "{\"body\": [{\"id\": 42}, {\"id\": 43}]}"
             /\ ( /\ op \in PluralAttributeOps
                  /\ args.datapoint = PyList(<<PyInt(42), PyInt(43)>>)
                  /\ args.value = PyList(<<PyInt(5), PyInt(6)>>) ) =>
                   Posts[i].data =
                      "{\"body\": [{\"id\": 42, \"value\": 5}, {\"id\": 43, \"value\": 6}]}"

C6_Witness ==
    /\ pc = "done"
    /\ op = "assign_string_attributes"
    /\ args.datapoint = PyList(<<PyInt(42), PyInt(43)>>)
    /\ args.value = PyList(<<PyInt(5), PyInt(6)>>)
    /\ Len(Posts) = 2
    /\ payload.v[1].e[2].v = <<PyInt(43), PyInt(6)>>

\* an invocation of assign_number_attributes or assign_string_attributes whose
\* arguments pass the asserts and the encoding, with lists of different lengths
MismatchedCall ==
    /\ op \in PluralAttributeOps
    /\ IsList(args.userId) /\ IsList(args.datapoint) /\ IsList(args.value)
    /\ \A i \in 1..Len(args.userId.e) : args.userId.e[i].t = "int"
    /\ Len(args.datapoint.e) # Len(args.value.e)

\* C7 as stated: lists of different lengths never cause an error.
C7_Original ==
    MismatchedCall => ~(pc = "raised" /\ error.type = "IndexError")

\* C7, amended: the lengths are not validated.  With the value list the longer
\* one the method pairs the datapoints with the first values, drops the rest,
\* authenticates and issues one request per user id; with the value list the
\* shorter one it raises IndexError while it builds the payload, before the
\* login, and issues no request.
C7_MismatchedLengths ==
    MismatchedCall =>
       IF Len(args.value.e) < Len(args.datapoint.e)
       THEN /\ pc = "raised"
            /\ error.type = "IndexError"
            /\ net = <<>>
       ELSE /\ pc = "raised" => error.type # "IndexError"
            /\ payload # None =>
                  /\ Len(payload.v[1].e) = Len(args.datapoint.e)
                  /\ \A i \in 1..Len(args.datapoint.e) :
                        payload.v[1].e[i].v = <<args.datapoint.e[i], args.value.e[i]>>
            /\ pc = "done" =>
                  /\ NumOf("login") = 1
                  /\ NumOf("post") = Len(args.userId.e)

C7_Witness ==
    /\ MismatchedCall
    /\ Len(args.datapoint.e) = 2
    /\ Len(args.value.e) = 1
    /\ Len(args.userId.e) = 2
    /\ pc = "raised"
    /\ error.type = "IndexError"
    /\ net = <<>>

\* C8 as stated: no failure of the remote side, a transport failure included,
\* is raised by an assignment method.
C8_Original ==
    pc = "raised" => error.type # "ConnectionError"

\* C8, amended: a login response without X-Auth-Token is not an error (the
\* token is None and every request carries it), nor is a non-2xx response
\* (the loop goes on), and a returned invocation has attempted every user id;
\* but a request that fails at transport level raises out of the method at
\* that request, so it is the last event of the invocation.
C8_RemoteFailures ==
    /\ \A i \in 1..Len(net) :
          (net[i].kind \in {"login", "post"} /\ ~net[i].answered) =>
             /\ i = Len(net)
             /\ pc = "raised"
             /\ error.type = "ConnectionError"
    /\ (pc = "raised" /\ error.type = "ConnectionError") =>
          /\ net # <<>>
          /\ net[Len(net)].kind \in {"login", "post"}
          /\ ~net[Len(net)].answered
    /\ (net # <<>> /\ net[1].answered /\ net[1].token = None) =>
          /\ headers["X-Auth-Token"] = None
          /\ pc \in {"loop", "sleep", "done", "raised"}
          /\ pc = "raised" => error.stage \in {"post", "serialize"}
          /\ \A i \in 1..Len(Posts) : Posts[i].headers["X-Auth-Token"] = None
    /\ (r # None /\ r.status = "500") =>
          \/ pc \in {"sleep", "loop", "done"}
          \/ pc = "raised" /\ error.stage = "post"
    /\ pc = "done" => NumOf("post") = Len(args.userId.e)

C8_Witness ==
    /\ pc = "raised"
    /\ error.type = "ConnectionError"
    /\ error.stage = "post"
    /\ Len(args.userId.e) = 2
    /\ NumOf("post") = 1
    /\ net[1].token = None

\* C9: a constructed controller has a str username, password, content type
\* and accept type and an int partner id (a wrongly typed argument makes
\* __init__ fail); construction issues no request; an invocation with a
\* wrongly typed argument raises; and an invocation that raised in its
\* asserts, in the encoding of the user ids or in building the payload has
\* issued no login request and no assignment POST.
C9_FailFast ==
    /\ ctor = "ok" =>
          /\ self.username.t = "str" /\ self.password.t = "str"
          /\ self.cmPartnerId.t = "int"
          /\ self.content_type.t = "str" /\ self.response_content_type.t = "str"
    /\ ctor # "ok" => self = None /\ nCalls = 0
    /\ nCalls = 0 => net = <<>> /\ totalLogins = 0
    /\ (op # "none" /\ args.userId.t # "list") =>
          pc = "raised" /\ error.type = "AssertionError"
    /\ (op \in PluralOps /\ args.datapoint.t # "list") =>
          pc = "raised" /\ error.type = "AssertionError"
    /\ (op \in Ops \ PluralOps /\ args.datapoint.t # "int") =>
          pc = "raised" /\ error.type = "AssertionError"
    /\ (pc = "raised" /\ error.stage \in {"validate", "encode", "payload"}) =>
          net = <<>>
    /\ (pc = "raised" /\ error.type \in {"AssertionError", "IndexError"}) =>
          net = <<>>

C9_Witness ==
    /\ pc = "raised"
    /\ error.type = "IndexError"
    /\ error.stage = "payload"
    /\ nCalls = 2
    /\ totalLogins = 1
    /\ net = <<>>

\* C10: after the login the events of an invocation alternate strictly
\* request, sleep, request, sleep; whenever the loop is at its head or the
\* method has returned every request so far has been followed by its sleep of
\* 0.8 s, whatever the response was, the last request included; a returned
\* invocation over k user ids has slept k times.
C10_SleepAfterEveryPost ==
    /\ \A i \in 2..Len(net) :
          /\ net[i].kind = IF i % 2 = 0 THEN "post" ELSE "sleep"
          /\ net[i].kind = "sleep" => net[i].tenths = 8
    /\ pc = "sleep" => NumOf("post") = NumOf("sleep") + 1
    /\ pc \in {"loop", "done"} =>
          /\ NumOf("sleep") = NumOf("post")
          /\ NumOf("sleep") = idx - 1
    /\ pc = "done" => NumOf("sleep") = Len(args.userId.e)

C10_Witness ==
    /\ pc = "done"
    /\ Len(args.userId.e) = 2
    /\ NumOf("sleep") = 2
    /\ net[Len(net)].kind = "sleep"
    /\ r.status = "500"

-----------------------------------------------------------------------------
(* Encoding specification: tohex applied to pairs of integers around the   *)
(* edges of [0, 2^63).                                                     *)

InitHex ==
    /\ self = None
    /\ ctor = "none"
    /\ pc = "idle"
    /\ op = "none"
    /\ args = <<>>
    /\ h_userId = <<>>
    /\ payload = None
    /\ headers = None
    /\ idx = 0
    /\ r = None
    /\ error = None
    /\ net = <<>>
    /\ nCalls = 0
    /\ nCompleted = 0
    /\ totalLogins = 0
    /\ hexIn \in HexInputs \X HexInputs
    /\ hexOut = <<>>

Encode ==
    /\ hexOut = <<>>
    /\ hexOut' = <<tohex(hexIn[1], UserIdBits), tohex(hexIn[2], UserIdBits)>>
    /\ UNCHANGED <<self, ctor, callVars, hexIn>>

NextHex == Encode

SpecHex == InitHex /\ [][NextHex]_vars

-----------------------------------------------------------------------------
(* Properties of the encoding *)

\* x in [0, 2^63)
InRange(x) == ~x.neg /\ Len(x.mag) <= 63

\* the integer a string of hex digits denotes
ParseHex(s) ==
    LET digit(c) == CHOOSE k \in 0..15 : HexChar[k + 1] = c
        bit(j) == LET d == digit(s[Len(s) - ((j - 1) \div 4)])
                  IN  (d \div (2 ^ ((j - 1) % 4))) % 2
    IN  MkInt(FALSE, [j \in 1..(4 * Len(s)) |-> bit(j)])

\* a = b modulo 2^63
Congruent(a, b) ==
    LET d == IntAdd(a, IntNeg(b))
    IN  \A i \in 1..Len(d.mag) : i <= 63 => d.mag[i] = 0

\* C4: for v in [0, 2^63) tohex(v, 63) is a string of exactly 16 characters
\* among 0-9a-f that denotes v, so two values in the range with the same
\* encoding are equal; 0 and 1 encode as 0000000000000000 and
\* 0000000000000001.
C4_EncodingInRange ==
    hexOut # <<>> =>
       /\ \A i \in 1..2 : InRange(hexIn[i]) =>
             /\ Len(hexOut[i]) = 16
             /\ \A j \in 1..Len(hexOut[i]) :
                   hexOut[i][j] \in {"0", "1", "2", "3", "4", "5", "6", "7",
                                     "8", "9", "a", "b", "c", "d", "e", "f"}
             /\ ParseHex(hexOut[i]) = hexIn[i]
             /\ hexIn[i] = PyInt(0) =>
                   hexOut[i] = <<"0", "0", "0", "0", "0", "0", "0", "0",
                                 "0", "0", "0", "0", "0", "0", "0", "0">>
             /\ hexIn[i] = PyInt(1) =>
                   hexOut[i] = <<"0", "0", "0", "0", "0", "0", "0", "0",
                                 "0", "0", "0", "0", "0", "0", "0", "1">>
       /\ (InRange(hexIn[1]) /\ InRange(hexIn[2]) /\ hexOut[1] = hexOut[2]) =>
             hexIn[1] = hexIn[2]

C4_Witness ==
    /\ hexOut # <<>>
    /\ hexIn[1] = IntAdd(TwoTo63, PyInt(-1))
    /\ hexIn[2] = PyInt(1)
    /\ hexOut[1] = <<"7", "f", "f", "f", "f", "f", "f", "f",
                     "f", "f", "f", "f", "f", "f", "f", "f">>

\* C5 as stated: no wrap is performed, tohex(a, 63) = tohex(b, 63) implies
\* a = b for all integers a and b.
C5_Original ==
    (hexOut # <<>> /\ hexOut[1] = hexOut[2]) => hexIn[1] = hexIn[2]

\* C5, amended: tohex wraps modulo 2^63: tohex(a, 63) = tohex(b, 63) exactly
\* when a and b are congruent modulo 2^63, so every integer outside
\* [0, 2^63) shares its encoding with the value of the range congruent to it.
C5_WrapsModulo ==
    hexOut # <<>> =>
       /\ (hexOut[1] = hexOut[2]) <=> Congruent(hexIn[1], hexIn[2])
       /\ \A i \in 1..2 : Len(hexOut[i]) = 16 /\ InRange(ParseHex(hexOut[i]))
       /\ \A i \in 1..2 : Congruent(ParseHex(hexOut[i]), hexIn[i])

C5_Witness ==
    /\ hexOut # <<>>
    /\ hexIn[1] = PyInt(-1)
    /\ hexIn[2] = IntAdd(TwoTo63, PyInt(-1))
    /\ hexOut[1] = hexOut[2]

====
